---- MODULE Spec2Model ----
(***************************************************************************)
(* Energy & Emissions Dashboard (src/app.py).                              *)
(*                                                                         *)
(* The script is executed top to bottom on every interaction: it reads the *)
(* three Eurostat tables, cleans them, builds the sidebar widgets, filters *)
(* the tables by the selected country and year range, merges the filtered  *)
(* tables and ranks the countries by mean emissions.  A change of a widget *)
(* value re-runs the whole script with the new widget values.              *)
(*                                                                         *)
(* A table (DataFrame) is a sequence of rows, a row a function from column *)
(* names to cells.  A cell that may be missing is a tagged tuple:          *)
(*   <<"nan">>            a missing value (NaN / None)                     *)
(*   <<"str", s>>         a string                                         *)
(*   <<"num", n>>         a number of a value column                       *)
(*   <<"int", n>>         an integer year                                  *)
(*   <<"float", w, t>>    the float w + t/10                               *)
(*   <<"text", chars>>    a string held as its sequence of characters      *)
(* The year column of a cleaned table is int64 and holds plain integers.   *)
(***************************************************************************)
EXTENDS Integers, Sequences, FiniteSets, TLC

VARIABLES
    emissions_raw, renewables_raw, energy_raw,  \* the tables read from the CSV files
    emissions, renewables, energy,              \* the cleaned tables
    countries, selected_country,                \* the country selectbox
    min_year, max_year,                         \* the common year range
    slider, year_range,                         \* the year slider: its arguments, its value
    emi_f, ren_f, ene_f,                        \* the filtered tables
    scatter_df,                                 \* the merged table
    top_emitters,                               \* the ranking
    pc, error,                                  \* position in the script, uncaught exception
    w_country, w_range                          \* widget values kept by the session

vars == <<emissions_raw, renewables_raw, energy_raw, emissions, renewables, energy,
          countries, selected_country, min_year, max_year, slider, year_range,
          emi_f, ren_f, ene_f, scatter_df, top_emitters, pc, error,
          w_country, w_range>>

-----------------------------------------------------------------------------
(* Cells *)

NaN == <<"nan">>

Str(s) == <<"str", s>>

Num(n) == <<"num", n>>

IntCell(n) == <<"int", n>>

FloatCell(w, t) == <<"float", w, t>>

Text(chars) == <<"text", chars>>

IsNull(cell) == cell[1] = "nan"

\* A name the script has not bound yet, and the value of a widget never touched.
Unset == <<"unset">>

\* Python's None, returned by a selectbox without options.
None == <<"none">>

NoError == "none"

-----------------------------------------------------------------------------
(* df["year"].astype(int) *)

DigitValue == [c \in {"0", "1", "2", "3", "4", "5", "6", "7", "8", "9"} |->
                 CASE c = "0" -> 0 [] c = "1" -> 1 [] c = "2" -> 2 [] c = "3" -> 3
                   [] c = "4" -> 4 [] c = "5" -> 5 [] c = "6" -> 6 [] c = "7" -> 7
                   [] c = "8" -> 8 [] c = "9" -> 9]

IsDigits(chars) == Len(chars) > 0 /\ \A i \in 1..Len(chars) : chars[i] \in DOMAIN DigitValue

RECURSIVE ParseDigits(_)
ParseDigits(chars) ==
    IF Len(chars) = 0 THEN 0
    ELSE 10 * ParseDigits(SubSeq(chars, 1, Len(chars) - 1)) + DigitValue[chars[Len(chars)]]

\* Whether int() / the int64 cast accepts the cell: integers, finite floats and
\* strings of digits do; NaN and any other string raise ValueError.
CanInt(cell) ==
    \/ cell[1] = "int"
    \/ cell[1] = "float"
    \/ cell[1] = "text" /\ IsDigits(cell[2])

\* The integer the cast yields: a float is truncated, a string is parsed.
AsInt(cell) ==
    CASE cell[1] = "int" -> cell[2]
      [] cell[1] = "float" -> cell[2]
      [] cell[1] = "text" -> ParseDigits(cell[2])

-----------------------------------------------------------------------------
(* clean_eurostat *)

\* rename(columns=...) followed by df[["country", "year", value_name]].
Project(df, value_name) ==
    [i \in 1..Len(df) |->
        [col \in {"country", "year", value_name} |->
            CASE col = "country" -> df[i].geo
              [] col = "year" -> df[i].TIME_PERIOD
              [] OTHER -> df[i].OBS_VALUE]]

AstypeRaises(df) == \E i \in 1..Len(df) : ~CanInt(df[i].year)

Astype(df) == [i \in 1..Len(df) |-> [df[i] EXCEPT !["year"] = AsInt(@)]]

\* dropna(): a row goes when any of its columns is missing.  The year column is
\* int64 after the cast and holds no missing value.
DropnaSubset(df, value_name) == SelectSeq(df, LAMBDA r : ~IsNull(r["country"]))

Dropna(df, value_name) ==
    SelectSeq(df, LAMBDA r : ~IsNull(r["country"]) /\ ~IsNull(r[value_name]))

\* A variant that coerces what it can and drops the rows it cannot, instead of raising.
clean_coerce(df, value_name) ==
    LET p == Project(df, value_name)
        ok == SelectSeq(p, LAMBDA r : CanInt(r["year"]))
    IN  [raises |-> FALSE, df |-> Dropna(Astype(ok), value_name)]

\* The result of clean_eurostat: the cleaned table, or the ValueError of the cast.
clean_eurostat(df, value_name) ==
    LET p == Project(df, value_name)
    IN  IF AstypeRaises(p)
        THEN [raises |-> TRUE, df |-> <<>>]
        ELSE [raises |-> FALSE, df |-> Dropna(Astype(p), value_name)]

-----------------------------------------------------------------------------
(* The sidebar: sorted(emissions["country"].unique()), the common year range *)

\* The country codes in lexicographic (Python string) order.
CountryOrder == <<"AT", "BE", "BG", "CY", "CZ", "DE", "DK", "EE", "EL", "ES", "FI">>

Min2(a, b) == IF a <= b THEN a ELSE b

Max2(a, b) == IF a >= b THEN a ELSE b

CountrySet(df) == {df[i]["country"] : i \in 1..Len(df)}

\* sorted(df["country"].unique()): each country once, in lexicographic order.
SortedUnique(df) ==
    LET all == [i \in 1..Len(CountryOrder) |-> Str(CountryOrder[i])]
    IN  SelectSeq(all, LAMBDA c : c \in CountrySet(df))

YearSet(df) == {df[i]["year"] : i \in 1..Len(df)}

\* df.year.min() and df.year.max(): NaN on a table without rows.
YearMin(df) ==
    IF Len(df) = 0 THEN NaN
    ELSE IntCell(CHOOSE y \in YearSet(df) : \A z \in YearSet(df) : y <= z)

YearMax(df) ==
    IF Len(df) = 0 THEN NaN
    ELSE IntCell(CHOOSE y \in YearSet(df) : \A z \in YearSet(df) : y >= z)

\* a > b and a < b on numbers: every comparison with NaN is False.
Gt(a, b) == ~IsNull(a) /\ ~IsNull(b) /\ a[2] > b[2]

Lt(a, b) == ~IsNull(a) /\ ~IsNull(b) /\ a[2] < b[2]

\* Python's max(...) and min(...): the first argument, replaced by each later
\* argument that compares greater (smaller) than the one held.
RECURSIVE PyMaxFrom(_, _)
PyMaxFrom(best, rest) ==
    IF Len(rest) = 0 THEN best
    ELSE PyMaxFrom(IF Gt(Head(rest), best) THEN Head(rest) ELSE best, Tail(rest))

RECURSIVE PyMinFrom(_, _)
PyMinFrom(best, rest) ==
    IF Len(rest) = 0 THEN best
    ELSE PyMinFrom(IF Lt(Head(rest), best) THEN Head(rest) ELSE best, Tail(rest))

PyMax(args) == PyMaxFrom(Head(args), Tail(args))

PyMin(args) == PyMinFrom(Head(args), Tail(args))

\* The widest range instead of the common one: the smallest minimum year.
WidestMinYear(e, r, n) == PyMin(<<YearMin(e), YearMin(r), YearMin(n)>>)

\* min_year = max(emissions.year.min(), renewables.year.min(), energy.year.min())
CommonMinYear(e, r, n) == PyMax(<<YearMin(e), YearMin(r), YearMin(n)>>)

\* max_year = min(emissions.year.max(), renewables.year.max(), energy.year.max())
CommonMaxYear(e, r, n) == PyMin(<<YearMax(e), YearMax(r), YearMax(n)>>)

-----------------------------------------------------------------------------
(* The filter: df.query("country == @c and year >= @lo and year <= @hi") *)

\* A variant with an exclusive upper bound.
FilterExclusive(df, country, lo, hi) ==
    SelectSeq(df, LAMBDA r : r["country"] = country /\ r["year"] >= lo /\ r["year"] < hi)

\* A variant that loses the first matching row.
FilterSkipFirst(df, country, lo, hi) ==
    LET m == SelectSeq(df, LAMBDA r : r["country"] = country /\ r["year"] >= lo /\ r["year"] <= hi)
    IN  IF Len(m) = 0 THEN m ELSE Tail(m)

Filter(df, country, lo, hi) ==
    SelectSeq(df, LAMBDA r : r["country"] = country /\ r["year"] >= lo /\ r["year"] <= hi)

-----------------------------------------------------------------------------
(* left.merge(right, on=["country", "year"], how="inner") *)

\* The rows one left row yields: itself joined to every right row of its key,
\* in the order of the right table.
MergeRow(l, right) ==
    LET m == SelectSeq(right, LAMBDA r : r["country"] = l["country"] /\ r["year"] = l["year"])
    IN  [j \in 1..Len(m) |-> l @@ m[j]]

\* A variant joining on the country alone.
RECURSIVE merge_on_country(_, _)
merge_on_country(left, right) ==
    IF Len(left) = 0 THEN <<>>
    ELSE LET l == Head(left)
             m == SelectSeq(right, LAMBDA r : r["country"] = l["country"])
         IN  [j \in 1..Len(m) |-> l @@ m[j]] \o merge_on_country(Tail(left), right)

\* A variant keeping only the first right row of a key.
RECURSIVE merge_first_match(_, _)
merge_first_match(left, right) ==
    IF Len(left) = 0 THEN <<>>
    ELSE LET m == MergeRow(Head(left), right)
         IN  (IF Len(m) = 0 THEN m ELSE <<m[1]>>) \o merge_first_match(Tail(left), right)

RECURSIVE merge_rows(_, _)
merge_rows(left, right) ==
    IF Len(left) = 0 THEN <<>>
    ELSE MergeRow(Head(left), right) \o merge_rows(Tail(left), right)

merge(left, right) == merge_rows(left, right)

-----------------------------------------------------------------------------
(* emissions.groupby("country")["emissions"].mean().sort_values(ascending=False).head(10) *)

TopK == 10

RECURSIVE SumEmissions(_)
SumEmissions(df) ==
    IF Len(df) = 0 THEN 0 ELSE Head(df)["emissions"][2] + SumEmissions(Tail(df))

\* The mean of a group as the fraction <<sum, count>>.  The floats sum / count of
\* two groups compare as these fractions do for the integers used here.
GroupMean(df, c) ==
    LET g == SelectSeq(df, LAMBDA r : r["country"] = c)
    IN  <<SumEmissions(g), Len(g)>>

MeanGE(a, b) == a[1] * b[2] >= b[1] * a[2]

\* groupby("country")[...].mean(): one row per country.
GroupMeans(df) == {[country |-> c, emissions |-> GroupMean(df, c)] : c \in CountrySet(df)}

\* sort_values(ascending=False): the default sort is not stable, so rows of equal
\* mean come in any order.  The set of the orders it can produce.
RECURSIVE SortValuesDesc(_)
SortValuesDesc(rows) ==
    IF rows = {} THEN {<<>>}
    ELSE UNION {{<<m>> \o s : s \in SortValuesDesc(rows \ {m})} :
                m \in {r \in rows : \A q \in rows : MeanGE(r.emissions, q.emissions)}}

HeadRows(s, k) == SubSeq(s, 1, Min2(k, Len(s)))

\* The rankings the expression can yield on a table.
Rankings(df) == {HeadRows(s, TopK) : s \in SortValuesDesc(GroupMeans(df))}

-----------------------------------------------------------------------------
(* The input tables the model is run on *)

\* The largest number of rows of a generated raw table.
MaxRows == 2

\* A row of a Eurostat file; freq stands for the columns the cleaning drops.
RawRow(geo, time, value) ==
    [freq |-> Str("A"), geo |-> geo, TIME_PERIOD |-> time, OBS_VALUE |-> value]

GoodRow(c, y, v) == RawRow(Str(c), IntCell(y), Num(v))

SeqsUpTo(S, n) == UNION {[1..m -> S] : m \in 0..n}

GoodTable == <<GoodRow("AT", 2001, 1), GoodRow("AT", 2002, 2)>>

\* Rows with missing cells and with years of every kind the cast meets.
DirtyRows ==
    {RawRow(g, t, v) :
        g \in {Str("AT"), NaN},
        t \in {IntCell(2001), Text(<<"2", "0", "0", "2">>), FloatCell(2002, 5),
               NaN, Text(<<"2", "0", "0", "Q">>)},
        v \in {Num(1), NaN}}

DirtyInputs ==
    {<<t, GoodTable, GoodTable>> : t \in SeqsUpTo(DirtyRows, MaxRows)}
    \cup {<<GoodTable, t, GoodTable>> : t \in SeqsUpTo(DirtyRows, 1)}
    \cup {<<GoodTable, GoodTable, t>> : t \in SeqsUpTo(DirtyRows, 1)}

\* Well-formed tables in which a (country, year) key may repeat; the value of a
\* row is its position, so that no two rows of a table are equal.
KeyedTable(keys) == [i \in 1..Len(keys) |-> GoodRow(keys[i][1], keys[i][2], i)]

KeyedInputs ==
    {<<KeyedTable(e), KeyedTable(r), KeyedTable(n)>> :
        e \in SeqsUpTo({"AT", "BE"} \X {2001, 2002}, MaxRows),
        r \in SeqsUpTo({"AT"} \X {2001, 2002}, MaxRows),
        n \in SeqsUpTo({"AT"} \X {2001, 2002}, 2)}

\* Emissions tables of TopK + 1 countries: the first three have one or two rows
\* drawn below, each of the others one row of a value of its own.
RankedGroups == {<<5>>, <<40>>, <<5, 35>>, <<120>>}

GroupRows(c, values) == [i \in 1..Len(values) |-> GoodRow(c, 2000 + i, values[i])]

RECURSIVE ConcatAll(_)
ConcatAll(tables) == IF Len(tables) = 0 THEN <<>> ELSE Head(tables) \o ConcatAll(Tail(tables))

RankedTable(g) ==
    ConcatAll([i \in 1..(TopK + 1) |->
                  IF i <= 3 THEN GroupRows(CountryOrder[i], g[i])
                  ELSE GroupRows(CountryOrder[i], <<10 * i>>)])

RankedInputs == {<<RankedTable(g), GoodTable, GoodTable>> : g \in [1..3 -> RankedGroups]}

\* Year spans [1995, 2021], [2004, 2021] and [1990, 2020].
SpanInputs ==
    {<<(<<GoodRow("AT", 1995, 1), GoodRow("AT", 2021, 2)>>),
       (<<GoodRow("AT", 2004, 1), GoodRow("AT", 2021, 2)>>),
       (<<GoodRow("AT", 1990, 1), GoodRow("AT", 2020, 2)>>)>>}

Inputs == DirtyInputs \cup KeyedInputs \cup RankedInputs \cup SpanInputs

-----------------------------------------------------------------------------
(* The script *)

PcOrder == <<"clean_emissions", "clean_renewables", "clean_energy", "selectbox",
             "year_bounds", "slider", "filter", "merge", "top_emitters", "done">>

Pos(p) == CHOOSE i \in 1..Len(PcOrder) : PcOrder[i] = p

\* Lines 18-20: the files are read.  No name of the script is bound, no widget touched.
Init ==
    /\ \E t \in Inputs :
          /\ emissions_raw = t[1]
          /\ renewables_raw = t[2]
          /\ energy_raw = t[3]
    /\ emissions = <<>> /\ renewables = <<>> /\ energy = <<>>
    /\ countries = <<>> /\ selected_country = Unset
    /\ min_year = Unset /\ max_year = Unset
    /\ slider = <<>> /\ year_range = <<>>
    /\ emi_f = <<>> /\ ren_f = <<>> /\ ene_f = <<>>
    /\ scatter_df = <<>> /\ top_emitters = <<>>
    /\ pc = "clean_emissions" /\ error = NoError
    /\ w_country = Unset /\ w_range = Unset

Running(p) == pc = p /\ error = NoError

\* Line 36.
CleanEmissions ==
    /\ Running("clean_emissions")
    /\ LET res == clean_eurostat(emissions_raw, "emissions")
       IN  IF res.raises
           THEN /\ error' = "ValueError"
                /\ UNCHANGED <<emissions, pc>>
           ELSE /\ emissions' = res.df
                /\ pc' = "clean_renewables"
                /\ UNCHANGED error
    /\ UNCHANGED <<emissions_raw, renewables_raw, energy_raw, renewables, energy,
                   countries, selected_country, min_year, max_year, slider, year_range,
                   emi_f, ren_f, ene_f, scatter_df, top_emitters, w_country, w_range>>

\* Line 37.
CleanRenewables ==
    /\ Running("clean_renewables")
    /\ LET res == clean_eurostat(renewables_raw, "renewables")
       IN  IF res.raises
           THEN /\ error' = "ValueError"
                /\ UNCHANGED <<renewables, pc>>
           ELSE /\ renewables' = res.df
                /\ pc' = "clean_energy"
                /\ UNCHANGED error
    /\ UNCHANGED <<emissions_raw, renewables_raw, energy_raw, emissions, energy,
                   countries, selected_country, min_year, max_year, slider, year_range,
                   emi_f, ren_f, ene_f, scatter_df, top_emitters, w_country, w_range>>

\* Line 38.
CleanEnergy ==
    /\ Running("clean_energy")
    /\ LET res == clean_eurostat(energy_raw, "energy")
       IN  IF res.raises
           THEN /\ error' = "ValueError"
                /\ UNCHANGED <<energy, pc>>
           ELSE /\ energy' = res.df
                /\ pc' = "selectbox"
                /\ UNCHANGED error
    /\ UNCHANGED <<emissions_raw, renewables_raw, energy_raw, emissions, renewables,
                   countries, selected_country, min_year, max_year, slider, year_range,
                   emi_f, ren_f, ene_f, scatter_df, top_emitters, w_country, w_range>>

\* Lines 45-46: the selectbox returns the value the session holds, the first
\* option when it holds none, None when there is no option.
SelectCountry ==
    /\ Running("selectbox")
    /\ countries' = SortedUnique(emissions)
    /\ selected_country' =
          IF w_country # Unset THEN w_country
          ELSE IF Len(countries') = 0 THEN None ELSE countries'[1]
    /\ pc' = "year_bounds"
    /\ UNCHANGED <<emissions_raw, renewables_raw, energy_raw, emissions, renewables, energy,
                   min_year, max_year, slider, year_range, emi_f, ren_f, ene_f,
                   scatter_df, top_emitters, error, w_country, w_range>>

\* Lines 48-57.
YearBounds ==
    /\ Running("year_bounds")
    /\ min_year' = CommonMinYear(emissions, renewables, energy)
    /\ max_year' = CommonMaxYear(emissions, renewables, energy)
    /\ pc' = "slider"
    /\ UNCHANGED <<emissions_raw, renewables_raw, energy_raw, emissions, renewables, energy,
                   countries, selected_country, slider, year_range, emi_f, ren_f, ene_f,
                   scatter_df, top_emitters, error, w_country, w_range>>

\* Lines 59-64.  int(NaN) raises ValueError before the slider is called.  The
\* slider is called with min_year and max_year whatever their order.  With
\* min_value <= max_value it returns the range the session holds, the default
\* (min_year, max_year) when it holds none.  What the widget does with
\* min_value > max_value is the library's business: it may raise, or return the
\* default as given or with its ends swapped, or the range the session holds.
YearSlider ==
    /\ Running("slider")
    /\ IF IsNull(min_year) \/ IsNull(max_year)
       THEN /\ error' = "ValueError"
            /\ UNCHANGED <<slider, year_range, pc>>
       ELSE LET lo == min_year[2]
                hi == max_year[2]
            IN  /\ slider' = <<[min_value |-> lo, max_value |-> hi, value |-> <<lo, hi>>]>>
                /\ IF lo <= hi
                   THEN /\ year_range' = IF w_range # Unset THEN w_range ELSE <<lo, hi>>
                        /\ pc' = "filter"
                        /\ UNCHANGED error
                   ELSE \/ /\ error' = "StreamlitAPIException"
                           /\ UNCHANGED <<year_range, pc>>
                        \/ /\ year_range' \in (IF w_range # Unset THEN {w_range}
                                               ELSE {<<lo, hi>>, <<hi, lo>>})
                           /\ pc' = "filter"
                           /\ UNCHANGED error
    /\ UNCHANGED <<emissions_raw, renewables_raw, energy_raw, emissions, renewables, energy,
                   countries, selected_country, min_year, max_year, emi_f, ren_f, ene_f,
                   scatter_df, top_emitters, w_country, w_range>>

\* A variant of the filter step that overwrites the cleaned tables.
FilterDataInPlace ==
    /\ Running("filter")
    /\ emi_f' = Filter(emissions, selected_country, year_range[1], year_range[2])
    /\ ren_f' = Filter(renewables, selected_country, year_range[1], year_range[2])
    /\ ene_f' = Filter(energy, selected_country, year_range[1], year_range[2])
    /\ emissions' = emi_f' /\ renewables' = ren_f' /\ energy' = ene_f'
    /\ pc' = "merge"
    /\ UNCHANGED <<emissions_raw, renewables_raw, energy_raw,
                   countries, selected_country, min_year, max_year, slider, year_range,
                   scatter_df, top_emitters, error, w_country, w_range>>

\* Lines 69-71.
FilterData ==
    /\ Running("filter")
    /\ emi_f' = Filter(emissions, selected_country, year_range[1], year_range[2])
    /\ ren_f' = Filter(renewables, selected_country, year_range[1], year_range[2])
    /\ ene_f' = Filter(energy, selected_country, year_range[1], year_range[2])
    /\ pc' = "merge"
    /\ UNCHANGED <<emissions_raw, renewables_raw, energy_raw, emissions, renewables, energy,
                   countries, selected_country, min_year, max_year, slider, year_range,
                   scatter_df, top_emitters, error, w_country, w_range>>

\* Lines 104-108.
Merge ==
    /\ Running("merge")
    /\ scatter_df' = merge(merge(emi_f, ren_f), ene_f)
    /\ pc' = "top_emitters"
    /\ UNCHANGED <<emissions_raw, renewables_raw, energy_raw, emissions, renewables, energy,
                   countries, selected_country, min_year, max_year, slider, year_range,
                   emi_f, ren_f, ene_f, top_emitters, error, w_country, w_range>>

\* A variant of the ranking computed on the filtered emissions.
TopEmittersFiltered ==
    /\ Running("top_emitters")
    /\ top_emitters' \in Rankings(emi_f)
    /\ pc' = "done"
    /\ UNCHANGED <<emissions_raw, renewables_raw, energy_raw, emissions, renewables, energy,
                   countries, selected_country, min_year, max_year, slider, year_range,
                   emi_f, ren_f, ene_f, scatter_df, error, w_country, w_range>>

\* Lines 170-175.
TopEmitters ==
    /\ Running("top_emitters")
    /\ top_emitters' \in Rankings(emissions)
    /\ pc' = "done"
    /\ UNCHANGED <<emissions_raw, renewables_raw, energy_raw, emissions, renewables, energy,
                   countries, selected_country, min_year, max_year, slider, year_range,
                   emi_f, ren_f, ene_f, scatter_df, error, w_country, w_range>>

\* A widget value changed: the session keeps the widget values and the script
\* runs again from its first line, in a namespace of its own.
Rerun(c, r) ==
    /\ w_country' = c
    /\ w_range' = r
    /\ emissions' = <<>> /\ renewables' = <<>> /\ energy' = <<>>
    /\ countries' = <<>> /\ selected_country' = Unset
    /\ min_year' = Unset /\ max_year' = Unset
    /\ slider' = <<>> /\ year_range' = <<>>
    /\ emi_f' = <<>> /\ ren_f' = <<>> /\ ene_f' = <<>>
    /\ scatter_df' = <<>> /\ top_emitters' = <<>>
    /\ pc' = "clean_emissions"
    /\ UNCHANGED <<emissions_raw, renewables_raw, energy_raw, error>>

\* The user picks another option of the selectbox.
ChangeCountry ==
    /\ Running("done")
    /\ \E i \in 1..Len(countries) :
          /\ countries[i] # selected_country
          /\ Rerun(countries[i], w_range)

\* The user moves the slider to another range within its bounds.
ChangeYearRange ==
    /\ Running("done")
    /\ LET s == slider[1]
           lo == Min2(s.min_value, s.max_value)
           hi == Max2(s.min_value, s.max_value)
       IN  \E a \in lo..hi : \E b \in a..hi :
              /\ <<a, b>> # year_range
              /\ Rerun(w_country, <<a, b>>)

Next ==
    \/ CleanEmissions
    \/ CleanRenewables
    \/ CleanEnergy
    \/ SelectCountry
    \/ YearBounds
    \/ YearSlider
    \/ FilterData
    \/ Merge
    \/ TopEmitters
    \/ ChangeCountry
    \/ ChangeYearRange

Spec == Init /\ [][Next]_vars

-----------------------------------------------------------------------------
(* Properties *)

\* The step at position p has run in this execution of the script.
After(p) == Pos(pc) > Pos(p)

Rows(df) == {df[i] : i \in 1..Len(df)}

Count(df, r) == Cardinality({i \in 1..Len(df) : df[i] = r})

RowIsClean(r, value_name) ==
    /\ DOMAIN r = {"country", "year", value_name}
    /\ ~IsNull(r["country"])
    /\ r["year"] \in Int
    /\ ~IsNull(r[value_name])

\* C1: every row of a cleaned table has exactly the three retained columns, a
\* country that is not missing, an integer year and a value that is not missing.
C1_CleanedRowsHaveNoNulls ==
    /\ \A i \in 1..Len(emissions) : RowIsClean(emissions[i], "emissions")
    /\ \A i \in 1..Len(renewables) : RowIsClean(renewables[i], "renewables")
    /\ \A i \in 1..Len(energy) : RowIsClean(energy[i], "energy")

\* C1 witness: the emissions are cleaned, a raw row had a missing cell and was
\* dropped, another row was kept.
C1_Witness ==
    /\ After("clean_emissions")
    /\ \E i \in 1..Len(emissions_raw) :
          IsNull(emissions_raw[i].OBS_VALUE) \/ IsNull(emissions_raw[i].geo)
    /\ Len(emissions) > 0
    /\ Len(emissions) < Len(emissions_raw)

\* A year no integer can be made of: a missing one, or a string that is not all digits.
NotIntegerLike(cell) ==
    \/ cell[1] = "nan"
    \/ /\ cell[1] = "text"
       /\ \/ Len(cell[2]) = 0
          \/ \E i \in 1..Len(cell[2]) :
                cell[2][i] \notin {"0", "1", "2", "3", "4", "5", "6", "7", "8", "9"}

HasBadYear(raw) == \E i \in 1..Len(raw) : NotIntegerLike(raw[i].TIME_PERIOD)

\* C2: when a raw table has a year that cannot be converted, the step that
\* cleans it ends the script with the cast's error and binds no cleaned table.
C2_BadYearFailsWholeTable ==
    [][/\ (Running("clean_emissions") /\ HasBadYear(emissions_raw))
            => (error' = "ValueError" /\ pc' = pc /\ emissions' = <<>>)
       /\ (Running("clean_renewables") /\ HasBadYear(renewables_raw))
            => (error' = "ValueError" /\ pc' = pc /\ renewables' = <<>>)
       /\ (Running("clean_energy") /\ HasBadYear(energy_raw))
            => (error' = "ValueError" /\ pc' = pc /\ energy' = <<>>)]_vars

\* C2 witness: the cleaning of the emissions has failed on a table that has a
\* row with a missing year and a row that is complete.
C2_Witness ==
    /\ pc = "clean_emissions" /\ error = "ValueError"
    /\ \E i \in 1..Len(emissions_raw) : IsNull(emissions_raw[i].TIME_PERIOD)
    /\ \E i \in 1..Len(emissions_raw) :
          /\ emissions_raw[i].TIME_PERIOD[1] = "int"
          /\ ~IsNull(emissions_raw[i].geo)
          /\ ~IsNull(emissions_raw[i].OBS_VALUE)
    /\ emissions = <<>>

InRange(r, c, lo, hi) == r["country"] = c /\ lo <= r["year"] /\ r["year"] <= hi

\* f holds each row of df that is in range as often as df does, and no other row.
ExactlyMatching(f, df, c, lo, hi) ==
    /\ \A r \in Rows(df) \cup Rows(f) :
          Count(f, r) = IF InRange(r, c, lo, hi) THEN Count(df, r) ELSE 0
    /\ (\A i \in 1..Len(df) : ~InRange(df[i], c, lo, hi)) => f = <<>>

\* C3: each filtered table holds exactly the rows of its cleaned table of the
\* selected country and of a year within the range, both ends included; it is
\* empty when no row matches, and filtering raises no error.
C3_FilterSelectsExactly ==
    After("filter") =>
        /\ error = NoError
        /\ ExactlyMatching(emi_f, emissions, selected_country, year_range[1], year_range[2])
        /\ ExactlyMatching(ren_f, renewables, selected_country, year_range[1], year_range[2])
        /\ ExactlyMatching(ene_f, energy, selected_country, year_range[1], year_range[2])

\* C3 witness: a row at the lower end and a row at the upper end are kept, a row
\* of the emissions is left out, and the selected country has no row among the
\* renewables, whose filtered table is empty.
C3_Witness ==
    /\ After("filter")
    /\ \E i \in 1..Len(emi_f) : emi_f[i]["year"] = year_range[1]
    /\ \E i \in 1..Len(emi_f) : emi_f[i]["year"] = year_range[2]
    /\ Len(emi_f) < Len(emissions)
    /\ Len(renewables) > 0
    /\ ren_f = <<>>

\* C9: filtering a filtered table again with the same country and range returns it.
C9_FilterIdempotent ==
    After("filter") =>
        /\ Filter(emi_f, selected_country, year_range[1], year_range[2]) = emi_f
        /\ Filter(ren_f, selected_country, year_range[1], year_range[2]) = ren_f
        /\ Filter(ene_f, selected_country, year_range[1], year_range[2]) = ene_f

\* C9 witness: the filter kept two rows and left one out.
C9_Witness ==
    /\ After("filter")
    /\ Len(emi_f) >= 2
    /\ Len(ren_f) >= 1
    /\ Len(ren_f) < Len(renewables)

Min3(a, b, c) == Min2(a, Min2(b, c))

UniqueKeys(df) ==
    \A i, j \in 1..Len(df) :
        (df[i]["country"] = df[j]["country"] /\ df[i]["year"] = df[j]["year"]) => i = j

\* C4 as stated: the merged table has at most as many rows as the smallest of
\* the three filtered tables, whatever keys repeat.
C4_JoinAtMostSmallestInput ==
    After("merge") => Len(scatter_df) <= Min3(Len(emi_f), Len(ren_f), Len(ene_f))

\* C4 amended: when no (country, year) key occurs twice in any of the three
\* filtered tables, the merged table has at most as many rows as the smallest.
C4_JoinAtMostSmallestInputUniqueKeys ==
    (After("merge") /\ UniqueKeys(emi_f) /\ UniqueKeys(ren_f) /\ UniqueKeys(ene_f))
        => Len(scatter_df) <= Min3(Len(emi_f), Len(ren_f), Len(ene_f))

\* C4 witness: three filtered tables of unique keys, two of which survive the merge.
C4_Witness ==
    /\ After("merge")
    /\ UniqueKeys(emi_f) /\ UniqueKeys(ren_f) /\ UniqueKeys(ene_f)
    /\ Len(scatter_df) >= 2

KeyIn(df, r) ==
    \E i \in 1..Len(df) : df[i]["country"] = r["country"] /\ df[i]["year"] = r["year"]

SameBag(s, t) ==
    /\ Len(s) = Len(t)
    /\ \A r \in Rows(s) \cup Rows(t) : Count(s, r) = Count(t, r)

\* C5: the key of every merged row occurs in all three filtered tables, a merged
\* row has the five columns, and merging the three in any order yields the same
\* rows as often.
C5_JoinNeedsAllThreeAnyOrder ==
    After("merge") =>
        /\ \A i \in 1..Len(scatter_df) :
              /\ KeyIn(emi_f, scatter_df[i])
              /\ KeyIn(ren_f, scatter_df[i])
              /\ KeyIn(ene_f, scatter_df[i])
              /\ DOMAIN scatter_df[i] = {"country", "year", "emissions", "renewables", "energy"}
        /\ SameBag(merge(merge(emi_f, ene_f), ren_f), scatter_df)
        /\ SameBag(merge(merge(ren_f, emi_f), ene_f), scatter_df)
        /\ SameBag(merge(merge(ren_f, ene_f), emi_f), scatter_df)
        /\ SameBag(merge(merge(ene_f, emi_f), ren_f), scatter_df)
        /\ SameBag(merge(merge(ene_f, ren_f), emi_f), scatter_df)

\* C5 witness: a key repeated in one filtered table gives more merged rows than
\* another filtered table has rows.
C5_Witness ==
    /\ After("merge")
    /\ Len(ren_f) > 0
    /\ Len(scatter_df) > Len(ren_f)
    /\ ~UniqueKeys(emi_f)

IsMinYear(df, y) ==
    (\E i \in 1..Len(df) : df[i]["year"] = y) /\ (\A i \in 1..Len(df) : df[i]["year"] >= y)

IsMaxYear(df, y) ==
    (\E i \in 1..Len(df) : df[i]["year"] = y) /\ (\A i \in 1..Len(df) : df[i]["year"] <= y)

\* C6: with three cleaned tables that have rows, min_year is the largest of the
\* tables' first years and max_year the smallest of their last years, and the
\* slider is given the two as its bounds and as its default value.
C6_CommonYearRange ==
    (After("year_bounds") /\ Len(emissions) > 0 /\ Len(renewables) > 0 /\ Len(energy) > 0) =>
        /\ min_year[1] = "int" /\ max_year[1] = "int"
        /\ \E a \in YearSet(emissions), b \in YearSet(renewables), c \in YearSet(energy) :
              /\ IsMinYear(emissions, a) /\ IsMinYear(renewables, b) /\ IsMinYear(energy, c)
              /\ min_year[2] \in {a, b, c}
              /\ min_year[2] >= a /\ min_year[2] >= b /\ min_year[2] >= c
        /\ \E a \in YearSet(emissions), b \in YearSet(renewables), c \in YearSet(energy) :
              /\ IsMaxYear(emissions, a) /\ IsMaxYear(renewables, b) /\ IsMaxYear(energy, c)
              /\ max_year[2] \in {a, b, c}
              /\ max_year[2] <= a /\ max_year[2] <= b /\ max_year[2] <= c
        /\ After("slider") =>
              slider = <<[min_value |-> min_year[2], max_value |-> max_year[2],
                          value |-> <<min_year[2], max_year[2]>>]>>
        /\ (After("slider") /\ w_range = Unset /\ min_year[2] <= max_year[2]) =>
              year_range = <<min_year[2], max_year[2]>>

\* C6 witness: the spans [1995, 2021], [2004, 2021] and [1990, 2020] give the
\* slider the bounds and the default (2004, 2020).
C6_Witness ==
    /\ After("slider")
    /\ IsMinYear(emissions, 1995) /\ IsMaxYear(emissions, 2021)
    /\ IsMinYear(renewables, 2004) /\ IsMaxYear(renewables, 2021)
    /\ IsMinYear(energy, 1990) /\ IsMaxYear(energy, 2020)
    /\ min_year = IntCell(2004) /\ max_year = IntCell(2020)
    /\ slider[1].min_value = 2004 /\ slider[1].max_value = 2020
    /\ year_range = <<2004, 2020>>

\* The year spans of the cleaned tables have no year in common.
NoCommonYear ==
    /\ After("year_bounds")
    /\ min_year[1] = "int" /\ max_year[1] = "int"
    /\ min_year[2] > max_year[2]

\* C7: when the spans do not overlap the script reports EmptyRangeError and
\* builds neither the slider nor the filtered tables from the inverted range;
\* the filter is only ever handed a range with min_year <= max_year.
C7_NoOverlapIsReported ==
    /\ NoCommonYear =>
          /\ slider = <<>>
          /\ pc = "slider"
          /\ error \in {NoError, "EmptyRangeError"}
    /\ After("slider") => min_year[2] <= max_year[2]

AllDistinct(t) == \A i, j \in 1..Len(t) : t[i].country = t[j].country => i = j

\* C8: the ranking has at most TopK rows, one per country, each with the mean
\* of all the rows the country has in the cleaned emissions, whatever the
\* selection; the means do not increase down the table, and no country left out
\* has a greater mean than a country kept.
C8_TopEmittersOverFullTable ==
    pc = "done" =>
        /\ Len(top_emitters) <= TopK
        /\ AllDistinct(top_emitters)
        /\ \A i \in 1..Len(top_emitters) :
              /\ top_emitters[i].country \in CountrySet(emissions)
              /\ top_emitters[i].emissions = GroupMean(emissions, top_emitters[i].country)
        /\ \A i, j \in 1..Len(top_emitters) :
              i < j => MeanGE(top_emitters[i].emissions, top_emitters[j].emissions)
        /\ \A c \in CountrySet(emissions) :
              (\A i \in 1..Len(top_emitters) : top_emitters[i].country # c) =>
                  /\ Len(top_emitters) = TopK
                  /\ \A i \in 1..Len(top_emitters) :
                        MeanGE(top_emitters[i].emissions, GroupMean(emissions, c))

\* C8 witness: more than TopK countries, one of them with two rows, a filter
\* that leaves rows of the emissions out, and a ranking of TopK rows.
C8_Witness ==
    /\ pc = "done"
    /\ Cardinality(CountrySet(emissions)) > TopK
    /\ Len(emissions) > Cardinality(CountrySet(emissions))
    /\ Len(emi_f) > 0
    /\ Len(emi_f) < Len(SelectSeq(emissions, LAMBDA r : r["country"] = selected_country))
    /\ Len(top_emitters) = TopK

\* C10: in every execution of the script, the first and each one a widget
\* change starts, the cleaned tables are what the cleaning makes of the files,
\* and the filtered and merged tables are what the filter and the merge make of
\* the cleaned tables and the selection the widgets hold now.
C10_DerivedFromCleanedAndSelection ==
    /\ After("clean_emissions") => emissions = clean_eurostat(emissions_raw, "emissions").df
    /\ After("clean_renewables") => renewables = clean_eurostat(renewables_raw, "renewables").df
    /\ After("clean_energy") => energy = clean_eurostat(energy_raw, "energy").df
    /\ After("selectbox") =>
          selected_country = (IF w_country # Unset THEN w_country
                              ELSE IF Len(countries) = 0 THEN None ELSE countries[1])
    /\ (After("slider") /\ w_range # Unset) => year_range = w_range
    /\ After("filter") =>
          /\ emi_f = Filter(emissions, selected_country, year_range[1], year_range[2])
          /\ ren_f = Filter(renewables, selected_country, year_range[1], year_range[2])
          /\ ene_f = Filter(energy, selected_country, year_range[1], year_range[2])
    /\ After("merge") => scatter_df = merge(merge(emi_f, ren_f), ene_f)

\* C10 witness: the script has run to its end after a change of the country and
\* a change of the year range, and the merged table has rows.
C10_Witness ==
    /\ pc = "done"
    /\ w_country # Unset /\ w_range # Unset
    /\ Len(emi_f) < Len(emissions)
    /\ Len(scatter_df) > 0

====
